---- MODULE Spec2Model ----
(***************************************************************************)
(* Model of src/wingrr/src/wingrr.cc: the wingrr execution context         *)
(* (wingrr_prep / wingrr_set_program / wingrr_set_workdir / wingrr_exec /  *)
(* wingrr_free), its per-context mutex, and the NODE_PATH save / set /     *)
(* run / restore sequence around node_main.                                *)
(*                                                                         *)
(* C strings are records [txt, len]: txt names the content, len is its     *)
(* strlen.  A const char * is an address; address 0 is nullptr and Deref   *)
(* gives the string stored at an address.  Two addresses may hold equal    *)
(* content.                                                                *)
(***************************************************************************)
EXTENDS Integers, Sequences, FiniteSets, TLC

VARIABLES ctx, nodePath, thr, aborted, hostEnv, log, root

vars == <<ctx, nodePath, thr, aborted, hostEnv, log, root>>

(***************************************************************************)
(* Universe of the model                                                   *)
(***************************************************************************)
Threads == {"t1", "t2"}

Contexts == {"c1", "c2"}

NoCtx == "none"

NoThread == "none"

\* size_t buflen = 4096 (wingrr.cc:105)
BufLen == 4096

Str(txt, len) == [txt |-> txt, len |-> len]

\* the environment variable does not exist
Unset == Str("<unset>", 0)

\* the content of a buffer that was never written
Uninit == Str("<uninit>", 0)

EmptyStr == Str("", 0)

Junk == Str("<junk>", 8)

\* what uv_os_setenv may read out of a char buf[4096] nobody wrote to
GarbageValues == {EmptyStr, Junk}

\* host values of NODE_PATH: the longest that fits the buffer, the shortest
\* that does not
HostFits == Str("/host/fit", BufLen - 1)

HostLong == Str("/host/long", BufLen)

HostEnvValues == {Unset, HostFits, HostLong}

NULL == 0

\* caller-owned strings: address -> content
Deref(p) ==
  CASE p = 1 -> Str("main.ts", 7)
    [] p = 2 -> Str("main.ts", 7)
    [] p = 3 -> Str("app.js", 6)
    [] p = 4 -> Str("/srv/w1", 7)
    [] p = 5 -> Str("/srv/w1", 7)
    [] p = 6 -> Str("/srv/w2", 7)
    [] OTHER -> Uninit

ProgramPtrs == {NULL, 1, 2, 3}

WorkdirPtrs == {NULL, 4, 5, 6}

\* statuses a runtime may return
Statuses == {-1, 0, 1}

\* wingrr_engine_type_t values named by wingrr_exec
EngineTypes ==
  {"JAVASCRIPT", "TYPESCRIPT", "CSHARP", "GO", "JAVA", "PYTHON", "RUBY", "LUA"}

\* the type field of memory that holds no context
UnknownType == "UNKNOWN"

NodeTypes == {"JAVASCRIPT", "TYPESCRIPT"}

(***************************************************************************)
(* wingrr_context_t_ and the per-thread activation record                  *)
(***************************************************************************)
NoContext ==
  [st |-> "none", program |-> NULL, workdir |-> NULL, type |-> UnknownType,
   mutex |-> NoThread]

\* new wingrr_context_t_() value-initialises: both pointers are nullptr
wingrr_context_t_(type) ==
  [st |-> "live", program |-> NULL, workdir |-> NULL, type |-> type,
   mutex |-> NoThread]

\* per context: the type given to wingrr_prep, the pointers last given to the
\* setters, and how many wingrr_exec calls have returned (counted up to a cap)
NoLog == [type |-> UnknownType, program |-> NULL, workdir |-> NULL, nexec |-> 0]

\* the count of returned wingrr_exec calls is kept up to this number
MaxExecs == 1

NoInv ==
  [path |-> "none", workdir |-> NULL, program |-> NULL, argv |-> <<>>,
   argc |-> 0, env |-> Unset]

IdleThread ==
  [pc |-> "idle", c |-> NoCtx, arg |-> NULL, buf |-> Uninit, ret |-> 0,
   status |-> 0, ninv |-> 0, inv |-> NoInv, env0 |-> Unset]

ExecPcs == {"locked", "saved", "envset", "running", "ran", "engine", "exec_ret"}

InvokingPcs == {"running", "engine"}

\* no other thread is inside wingrr_exec
Solo(t) == \A u \in Threads \ {t} : thr[u].pc \notin ExecPcs

NotSolo == Str("<concurrent>", 0)

\* NODE_PATH as a call finds it, recorded for the calls that start with no
\* other wingrr_exec running
EnvAtEntry(t) == IF Solo(t) THEN nodePath ELSE NotSolo

(***************************************************************************)
(* _get_runtime_path: the static initialiser of RUNTIME_PATH               *)
(***************************************************************************)
Dot == Str(".", 1)

\* values of WINGRR_ROOT
RootEnvValues ==
  {Unset, EmptyStr, Str("/opt/wingrr", 11), Str("/opt/fit", BufLen - 1),
   Str("/opt/long", BufLen), Str("/opt/longer", BufLen + 1)}

\* what getcwd finds: a directory, or an error
CwdStates ==
  {[err |-> "OK", dir |-> Str("/", 1)],
   [err |-> "OK", dir |-> Str("/home/app", 9)],
   [err |-> "OK", dir |-> Str("/deep/fit", BufLen - 1)],
   [err |-> "OK", dir |-> Str("/deep/long", BufLen)],
   [err |-> "UV_ENOENT", dir |-> EmptyStr],
   [err |-> "UV_EACCES", dir |-> EmptyStr]}

\* buflen after uv_os_getenv(name, buf, &buflen): strlen on success, the
\* needed size on UV_ENOBUFS, untouched on UV_ENOENT
uv_os_getenv_size(env, size) ==
  IF env = Unset THEN size
  ELSE IF env.len >= size THEN env.len + 1
  ELSE env.len

\* uv_cwd(buf, &buflen): the directory when it fits the size it is told,
\* UV_ENOBUFS when it does not, the error of getcwd otherwise.  A size
\* larger than the array lets getcwd write past its end.
uv_cwd(cwd, buf, size) ==
  IF cwd.err # "OK" THEN {[rc |-> cwd.err, buf |-> buf]}
  ELSE IF cwd.dir.len >= size THEN {[rc |-> "UV_ENOBUFS", buf |-> buf]}
  ELSE IF cwd.dir.len >= BufLen
    THEN {[rc |-> "OK", buf |-> cwd.dir], [rc |-> "OK", buf |-> Junk]}
  ELSE {[rc |-> "OK", buf |-> cwd.dir]}

\* RUNTIME_PATH of a process started in /home/app without WINGRR_ROOT
StaticRoot ==
  [pc |-> "done", env |-> Unset, cwd |-> [err |-> "OK", dir |-> Str("/home/app", 9)],
   buf |-> Str("/home/app", 9), buflen |-> BufLen, path |-> Str("/home/app", 9)]

Busy(c) == \E t \in Threads : thr[t].c = c

Init ==
  /\ ctx = [c \in Contexts |-> NoContext]
  /\ nodePath \in HostEnvValues
  /\ hostEnv = nodePath
  /\ thr = [t \in Threads |-> IdleThread]
  /\ aborted = FALSE
  /\ log = [c \in Contexts |-> NoLog]
  /\ root = StaticRoot

(***************************************************************************)
(* libuv and the argument vector                                           *)
(***************************************************************************)
\* uv_os_getenv(name, buf, &buflen): the value is copied only when the
\* variable exists and strlen(value) < buflen; otherwise (UV_ENOENT,
\* UV_ENOBUFS) buf is left as it was
uv_os_getenv(env, buf) ==
  IF env = Unset THEN buf
  ELSE IF env.len >= BufLen THEN buf
  ELSE env

\* the values uv_os_setenv(name, buf) can store: the string in buf, or, when
\* buf was never written, whatever bytes the stack held
uv_os_setenv(buf) ==
  IF buf = Uninit THEN GarbageValues ELSE {buf}

NullArg == "<nullptr>"

FixedFlags ==
  <<"--experimental-modules",
    "--experimental-wasi-unstable-preview1",
    "--no-global-search-paths",
    "--no-experimental-fetch",
    "--no-deprecation",
    "--no-warnings",
    "--no-addons">>

TsFlags == <<"--require", "ts-node/register/transpile-only">>

\* variant: the loader pair is pushed after the program
NodeArgv_RequireLast(type, program) ==
  <<"wingrr">> \o FixedFlags
    \o <<Deref(program).txt>>
    \o (IF type = "TYPESCRIPT" THEN TsFlags ELSE <<>>)
    \o <<NullArg>>

\* std::vector<const char *> argv as wingrr_exec builds it, nullptr included
NodeArgv(type, program) ==
  <<"wingrr">> \o FixedFlags
    \o (IF type = "TYPESCRIPT" THEN TsFlags ELSE <<>>)
    \o <<Deref(program).txt>>
    \o <<NullArg>>

\* variant: the GO and JAVA branches construct each other's engine
EnginePath_Swapped(type) ==
  IF type = "JAVASCRIPT" \/ type = "TYPESCRIPT" THEN "node_main"
  ELSE IF type = "CSHARP" THEN "CSharpEngine"
  ELSE IF type = "GO" THEN "JavaEngine"
  ELSE IF type = "JAVA" THEN "GoEngine"
  ELSE IF type = "PYTHON" THEN "PythonEngine"
  ELSE IF type = "RUBY" THEN "RubyEngine"
  ELSE IF type = "LUA" THEN "LuaEngine"
  ELSE "none"

\* the if / else-if chain of wingrr_exec
EnginePath(type) ==
  IF type = "JAVASCRIPT" \/ type = "TYPESCRIPT" THEN "node_main"
  ELSE IF type = "CSHARP" THEN "CSharpEngine"
  ELSE IF type = "GO" THEN "GoEngine"
  ELSE IF type = "JAVA" THEN "JavaEngine"
  ELSE IF type = "PYTHON" THEN "PythonEngine"
  ELSE IF type = "RUBY" THEN "RubyEngine"
  ELSE IF type = "LUA" THEN "LuaEngine"
  ELSE "none"

\* variant: the engine is constructed from the program and run on the workdir
Dispatch_SwappedArgs(type, program, workdir) ==
  IF EnginePath(type) = "node_main"
    THEN [path |-> "node_main", workdir |-> NULL, program |-> program,
          argv |-> NodeArgv(type, program),
          argc |-> Len(NodeArgv(type, program)) - 1]
    ELSE [path |-> EnginePath(type), workdir |-> program, program |-> workdir,
          argv |-> <<>>, argc |-> 0]

\* what wingrr_exec hands to the runtime it selects
Dispatch(type, program, workdir) ==
  IF EnginePath(type) = "node_main"
    THEN [path |-> "node_main", workdir |-> NULL, program |-> program,
          argv |-> NodeArgv(type, program),
          argc |-> Len(NodeArgv(type, program)) - 1]
    ELSE [path |-> EnginePath(type), workdir |-> workdir, program |-> program,
          argv |-> <<>>, argc |-> 0]

WithEnv(d, env) ==
  [path |-> d.path, workdir |-> d.workdir, program |-> d.program,
   argv |-> d.argv, argc |-> d.argc, env |-> env]

(***************************************************************************)
(* Operations.  A call on a freed context is undefined behaviour: it       *)
(* either crashes or runs on the memory the context left behind.           *)
(***************************************************************************)
Abort(t, why) ==
  /\ aborted' = TRUE
  /\ thr' = [thr EXCEPT ![t].pc = why]
  /\ UNCHANGED <<ctx, nodePath, hostEnv, root, log>>

wingrr_prep(t, c, type) ==
  /\ ~aborted
  /\ thr[t].pc = "idle"
  /\ ctx[c].st = "none"
  /\ ctx' = [ctx EXCEPT ![c] = wingrr_context_t_(type)]
  /\ log' = [log EXCEPT ![c] = [NoLog EXCEPT !.type = type]]
  /\ UNCHANGED <<nodePath, thr, aborted, hostEnv, root>>

\* a thread calls wingrr_set_program / wingrr_set_workdir / wingrr_exec
Call(t, op, c, p) ==
  /\ ~aborted
  /\ thr[t].pc = "idle"
  /\ ctx[c].st # "none"
  /\ thr' = [thr EXCEPT ![t] = [IdleThread EXCEPT !.pc = op, !.c = c, !.arg = p]]
  /\ UNCHANGED <<ctx, nodePath, aborted, hostEnv, root, log>>

UseAfterFree(t) ==
  /\ ~aborted
  /\ thr[t].pc \in {"set_program", "set_workdir", "exec"}
  /\ ctx[thr[t].c].st = "freed"
  /\ Abort(t, "abort_uaf")

\* variant: the no-op test compares contents, so an equal string at another
\* address is not stored
wingrr_set_program_ByContent(t) ==
  LET c == thr[t].c IN
  /\ ~aborted
  /\ thr[t].pc = "set_program"
  /\ ctx[c].mutex = NoThread
  /\ ctx' = IF ctx[c].program # NULL /\ thr[t].arg # NULL
                /\ Deref(ctx[c].program) = Deref(thr[t].arg) THEN ctx
            ELSE [ctx EXCEPT ![c].program = thr[t].arg]
  /\ log' = [log EXCEPT ![c].program = thr[t].arg]
  /\ thr' = [thr EXCEPT ![t] = IdleThread]
  /\ UNCHANGED <<nodePath, aborted, hostEnv, root>>

\* variant: the early return of a no-op set leaves the mutex locked
wingrr_set_program_LeakLock(t) ==
  LET c == thr[t].c IN
  /\ ~aborted
  /\ thr[t].pc = "set_program"
  /\ ctx[c].mutex = NoThread
  /\ ctx' = IF ctx[c].program = thr[t].arg THEN [ctx EXCEPT ![c].mutex = t]
            ELSE [ctx EXCEPT ![c].program = thr[t].arg]
  /\ log' = [log EXCEPT ![c].program = thr[t].arg]
  /\ thr' = [thr EXCEPT ![t] = IdleThread]
  /\ UNCHANGED <<nodePath, aborted, hostEnv, root>>

\* variant: the setter takes no lock
wingrr_set_program_NoLock(t) ==
  LET c == thr[t].c IN
  /\ ~aborted
  /\ thr[t].pc = "set_program"
  /\ ctx' = IF ctx[c].program = thr[t].arg THEN ctx
            ELSE [ctx EXCEPT ![c].program = thr[t].arg]
  /\ log' = [log EXCEPT ![c].program = thr[t].arg]
  /\ thr' = [thr EXCEPT ![t] = IdleThread]
  /\ UNCHANGED <<nodePath, aborted, hostEnv, root>>

wingrr_set_program(t) ==
  LET c == thr[t].c IN
  /\ ~aborted
  /\ thr[t].pc = "set_program"
  /\ ctx[c].mutex = NoThread
  /\ ctx' = IF ctx[c].program = thr[t].arg THEN ctx
            ELSE [ctx EXCEPT ![c].program = thr[t].arg]
  /\ log' = [log EXCEPT ![c].program = thr[t].arg]
  /\ thr' = [thr EXCEPT ![t] = IdleThread]
  /\ UNCHANGED <<nodePath, aborted, hostEnv, root>>

\* variant: the setter stores into the program field
wingrr_set_workdir_WrongField(t) ==
  LET c == thr[t].c IN
  /\ ~aborted
  /\ thr[t].pc = "set_workdir"
  /\ ctx[c].mutex = NoThread
  /\ ctx' = IF ctx[c].workdir = thr[t].arg THEN ctx
            ELSE [ctx EXCEPT ![c].program = thr[t].arg]
  /\ log' = [log EXCEPT ![c].workdir = thr[t].arg]
  /\ thr' = [thr EXCEPT ![t] = IdleThread]
  /\ UNCHANGED <<nodePath, aborted, hostEnv, root>>

wingrr_set_workdir(t) ==
  LET c == thr[t].c IN
  /\ ~aborted
  /\ thr[t].pc = "set_workdir"
  /\ ctx[c].mutex = NoThread
  /\ ctx' = IF ctx[c].workdir = thr[t].arg THEN ctx
            ELSE [ctx EXCEPT ![c].workdir = thr[t].arg]
  /\ log' = [log EXCEPT ![c].workdir = thr[t].arg]
  /\ thr' = [thr EXCEPT ![t] = IdleThread]
  /\ UNCHANGED <<nodePath, aborted, hostEnv, root>>

\* variant: no lock_guard
ExecEnter_NoLock(t) ==
  LET c == thr[t].c IN
  /\ ~aborted
  /\ thr[t].pc = "exec"
  /\ ctx' = [ctx EXCEPT ![c].mutex = t]
  /\ IF ctx[c].program = NULL \/ ctx[c].workdir = NULL
       THEN /\ aborted' = TRUE
            /\ thr' = [thr EXCEPT ![t].pc = "abort_assert", ![t].env0 = EnvAtEntry(t)]
       ELSE /\ aborted' = aborted
            /\ thr' = [thr EXCEPT ![t].pc = "locked", ![t].env0 = EnvAtEntry(t)]
  /\ UNCHANGED <<nodePath, hostEnv, root, log>>

\* variant: assert(instance->workdir) is missing
ExecEnter_NoWorkdirAssert(t) ==
  LET c == thr[t].c IN
  /\ ~aborted
  /\ thr[t].pc = "exec"
  /\ ctx[c].mutex = NoThread
  /\ ctx' = [ctx EXCEPT ![c].mutex = t]
  /\ IF ctx[c].program = NULL
       THEN /\ aborted' = TRUE
            /\ thr' = [thr EXCEPT ![t].pc = "abort_assert", ![t].env0 = EnvAtEntry(t)]
       ELSE /\ aborted' = aborted
            /\ thr' = [thr EXCEPT ![t].pc = "locked", ![t].env0 = EnvAtEntry(t)]
  /\ UNCHANGED <<nodePath, hostEnv, root, log>>

\* variant: the type test is written with = for ==, which stores into type
ExecEnter_AssignsType(t) ==
  LET c == thr[t].c IN
  /\ ~aborted
  /\ thr[t].pc = "exec"
  /\ ctx[c].mutex = NoThread
  /\ ctx' = [ctx EXCEPT ![c].mutex = t, ![c].type = "TYPESCRIPT"]
  /\ IF ctx[c].program = NULL \/ ctx[c].workdir = NULL
       THEN /\ aborted' = TRUE
            /\ thr' = [thr EXCEPT ![t].pc = "abort_assert", ![t].env0 = EnvAtEntry(t)]
       ELSE /\ aborted' = aborted
            /\ thr' = [thr EXCEPT ![t].pc = "locked", ![t].env0 = EnvAtEntry(t)]
  /\ UNCHANGED <<nodePath, hostEnv, root, log>>

\* wingrr_exec up to the dispatch: lock_guard, the two asserts
\* variant: one lock for the whole process instead of one per context
ExecEnter_GlobalLock(t) ==
  LET c == thr[t].c IN
  /\ ~aborted
  /\ thr[t].pc = "exec"
  /\ ctx[c].mutex = NoThread
  /\ \A d \in Contexts : ctx[d].mutex = NoThread
  /\ ctx' = [ctx EXCEPT ![c].mutex = t]
  /\ IF ctx[c].program = NULL \/ ctx[c].workdir = NULL
       THEN /\ aborted' = TRUE
            /\ thr' = [thr EXCEPT ![t].pc = "abort_assert", ![t].env0 = EnvAtEntry(t)]
       ELSE /\ aborted' = aborted
            /\ thr' = [thr EXCEPT ![t].pc = "locked", ![t].env0 = EnvAtEntry(t)]
  /\ UNCHANGED <<nodePath, hostEnv, root, log>>

ExecEnter(t) ==
  LET c == thr[t].c IN
  /\ ~aborted
  /\ thr[t].pc = "exec"
  /\ ctx[c].mutex = NoThread
  /\ ctx' = [ctx EXCEPT ![c].mutex = t]
  /\ IF ctx[c].program = NULL \/ ctx[c].workdir = NULL
       THEN /\ aborted' = TRUE
            /\ thr' = [thr EXCEPT ![t].pc = "abort_assert", ![t].env0 = EnvAtEntry(t)]
       ELSE /\ aborted' = aborted
            /\ thr' = [thr EXCEPT ![t].pc = "locked", ![t].env0 = EnvAtEntry(t)]
  /\ UNCHANGED <<nodePath, hostEnv, root, log>>

\* uv_os_getenv("NODE_PATH", buf, &buflen)
NodeGetEnv(t) ==
  /\ ~aborted
  /\ thr[t].pc = "locked"
  /\ EnginePath(ctx[thr[t].c].type) = "node_main"
  /\ thr' = [thr EXCEPT ![t].pc = "saved",
                        ![t].buf = uv_os_getenv(nodePath, thr[t].buf)]
  /\ UNCHANGED <<ctx, nodePath, aborted, hostEnv, root, log>>

\* uv_os_setenv("NODE_PATH", instance->workdir)
NodeSetEnv(t) ==
  /\ ~aborted
  /\ thr[t].pc = "saved"
  /\ nodePath' = Deref(ctx[thr[t].c].workdir)
  /\ thr' = [thr EXCEPT ![t].pc = "envset"]
  /\ UNCHANGED <<ctx, aborted, hostEnv, root, log>>

\* node_main(argv.size() - 1, argv.data()) is entered
NodeMainEnter(t) ==
  LET c == thr[t].c IN
  /\ ~aborted
  /\ thr[t].pc = "envset"
  /\ thr' = [thr EXCEPT ![t].pc = "running",
                        ![t].ninv = thr[t].ninv + 1,
                        ![t].inv = WithEnv(Dispatch(ctx[c].type, ctx[c].program,
                                                    ctx[c].workdir), nodePath)]
  /\ UNCHANGED <<ctx, nodePath, aborted, hostEnv, root, log>>

\* ret = node_main(...)
NodeMainReturn(t, s) ==
  /\ ~aborted
  /\ thr[t].pc = "running"
  /\ thr' = [thr EXCEPT ![t].pc = "ran", ![t].status = s, ![t].ret = s]
  /\ UNCHANGED <<ctx, nodePath, aborted, hostEnv, root, log>>

\* uv_os_setenv("NODE_PATH", buf)
NodeRestoreEnv(t) ==
  /\ ~aborted
  /\ thr[t].pc = "ran"
  /\ nodePath' \in uv_os_setenv(thr[t].buf)
  /\ thr' = [thr EXCEPT ![t].pc = "exec_ret"]
  /\ UNCHANGED <<ctx, aborted, hostEnv, root, log>>

\* variant: the external branch scopes NODE_PATH as the node branch does
EngineExecute_ScopesEnv(t) ==
  LET c == thr[t].c IN
  /\ ~aborted
  /\ thr[t].pc = "locked"
  /\ EnginePath(ctx[c].type) \notin {"node_main", "none"}
  /\ nodePath' = Deref(ctx[c].workdir)
  /\ thr' = [thr EXCEPT ![t].pc = "engine",
                        ![t].ninv = thr[t].ninv + 1,
                        ![t].inv = WithEnv(Dispatch(ctx[c].type, ctx[c].program,
                                                    ctx[c].workdir), nodePath)]
  /\ UNCHANGED <<ctx, aborted, hostEnv, root, log>>

\* wrr::XEngine engine(instance->workdir); engine.execute(instance->program)
EngineExecute(t) ==
  LET c == thr[t].c IN
  /\ ~aborted
  /\ thr[t].pc = "locked"
  /\ EnginePath(ctx[c].type) \notin {"node_main", "none"}
  /\ thr' = [thr EXCEPT ![t].pc = "engine",
                        ![t].ninv = thr[t].ninv + 1,
                        ![t].inv = WithEnv(Dispatch(ctx[c].type, ctx[c].program,
                                                    ctx[c].workdir), nodePath)]
  /\ UNCHANGED <<ctx, nodePath, aborted, hostEnv, root, log>>

\* ret = engine.execute(...)
EngineReturn(t, s) ==
  /\ ~aborted
  /\ thr[t].pc = "engine"
  /\ thr' = [thr EXCEPT ![t].pc = "exec_ret", ![t].status = s, ![t].ret = s]
  /\ UNCHANGED <<ctx, nodePath, aborted, hostEnv, root, log>>

\* variant: the call gives up the program it ran
ExecReturn_Consumes(t, k) ==
  LET c == thr[t].c IN
  /\ ~aborted
  /\ thr[t].pc = "exec_ret"
  /\ ctx' = [ctx EXCEPT ![c].mutex = NoThread, ![c].program = NULL]
  /\ log' = [log EXCEPT ![c].nexec = IF @ < k THEN @ + 1 ELSE @]
  /\ thr' = [thr EXCEPT ![t] = IdleThread]
  /\ UNCHANGED <<nodePath, aborted, hostEnv, root>>

\* return ret: the lock_guard releases the mutex
ExecReturn(t, k) ==
  LET c == thr[t].c IN
  /\ ~aborted
  /\ thr[t].pc = "exec_ret"
  /\ ctx' = [ctx EXCEPT ![c].mutex = NoThread]
  /\ log' = [log EXCEPT ![c].nexec = IF @ < k THEN @ + 1 ELSE @]
  /\ thr' = [thr EXCEPT ![t] = IdleThread]
  /\ UNCHANGED <<nodePath, aborted, hostEnv, root>>

\* delete instance; the caller's duty is to call it with no call in progress
wingrr_free(t, c) ==
  /\ ~aborted
  /\ thr[t].pc = "idle"
  /\ ~Busy(c)
  /\ \/ /\ ctx[c].st = "live"
        /\ ctx' = [ctx EXCEPT ![c].st = "freed"]
        /\ UNCHANGED <<nodePath, thr, aborted, hostEnv, root, log>>
     \/ /\ ctx[c].st = "freed"
        /\ Abort(t, "abort_free")
     \/ /\ ctx[c].st = "freed"
        /\ UNCHANGED vars

NextOver(T, C, Ty, P, W, S, K) ==
  \E t \in T :
    \/ \E c \in C, ty \in Ty : wingrr_prep(t, c, ty)
    \/ \E c \in C, p \in P : Call(t, "set_program", c, p)
    \/ \E c \in C, w \in W : Call(t, "set_workdir", c, w)
    \/ \E c \in C : Call(t, "exec", c, NULL)
    \/ UseAfterFree(t)
    \/ wingrr_set_program(t)
    \/ wingrr_set_workdir(t)
    \/ ExecEnter(t)
    \/ NodeGetEnv(t)
    \/ NodeSetEnv(t)
    \/ NodeMainEnter(t)
    \/ \E s \in S : NodeMainReturn(t, s)
    \/ NodeRestoreEnv(t)
    \/ EngineExecute(t)
    \/ \E s \in S : EngineReturn(t, s)
    \/ ExecReturn(t, K)
    \/ \E c \in C : wingrr_free(t, c)

\* one context, every engine type, every pointer, two threads
Next == NextOver(Threads, {"c1"}, EngineTypes, ProgramPtrs, WorkdirPtrs, Statuses, MaxExecs)

Spec == Init /\ [][Next]_vars

\* two contexts over the node engines and one external engine, one program,
\* two workdirs of different content
NextEnv == NextOver(Threads, Contexts, {"JAVASCRIPT", "TYPESCRIPT", "PYTHON"}, {1}, {4, 6}, {0, 1}, 0)

\* the host starts with a NODE_PATH that fits the save buffer
InitEnv == Init /\ nodePath = HostFits

SpecEnv == InitEnv /\ [][NextEnv]_vars

\* one context, one node engine and one external engine, one program and one
\* workdir, runtimes that return 0
NextLive == NextOver(Threads, {"c1"}, {"TYPESCRIPT", "PYTHON"}, {1}, {4}, {0}, 0)

\* every step inside a call is taken once it can be (statements execute,
\* node_main and execute return); std::mutex is taken to grant fairly, so a
\* thread that finds the mutex free again and again gets it
FairLive ==
  \A t \in Threads :
    /\ SF_vars(wingrr_set_program(t))
    /\ SF_vars(wingrr_set_workdir(t))
    /\ SF_vars(ExecEnter(t))
    /\ WF_vars(NodeGetEnv(t))
    /\ WF_vars(NodeSetEnv(t))
    /\ WF_vars(NodeMainEnter(t))
    /\ WF_vars(NodeMainReturn(t, 0))
    /\ WF_vars(NodeRestoreEnv(t))
    /\ WF_vars(EngineExecute(t))
    /\ WF_vars(EngineReturn(t, 0))
    /\ WF_vars(ExecReturn(t, 0))

SpecLive == InitEnv /\ [][NextLive]_vars /\ FairLive

\* uv_os_getenv("WINGRR_ROOT", buf, &buflen) on the zeroed buf
RootGetEnv ==
  /\ root.pc = "start"
  /\ root' = [root EXCEPT !.pc = "test",
                          !.buf = uv_os_getenv(root.env, EmptyStr),
                          !.buflen = uv_os_getenv_size(root.env, BufLen)]
  /\ UNCHANGED <<ctx, nodePath, thr, aborted, hostEnv, log>>

\* !buf || buflen == 0 || std::string(buf) == "" && ...: the tests that
\* come before the call of uv_cwd
RootTest ==
  /\ root.pc = "test"
  /\ root' = IF root.buflen = 0 THEN [root EXCEPT !.pc = "done", !.path = Dot]
             ELSE IF root.buf = EmptyStr THEN [root EXCEPT !.pc = "cwd"]
             ELSE [root EXCEPT !.pc = "done", !.path = root.buf]
  /\ UNCHANGED <<ctx, nodePath, thr, aborted, hostEnv, log>>

\* uv_cwd(buf, &buflen) == UV_ENOBUFS ? "." : std::string(buf)
RootCwd ==
  /\ root.pc = "cwd"
  /\ \E r \in uv_cwd(root.cwd, root.buf, root.buflen) :
       root' = [root EXCEPT !.pc = "done", !.buf = r.buf,
                            !.path = IF r.rc = "UV_ENOBUFS" THEN Dot ELSE r.buf]
  /\ UNCHANGED <<ctx, nodePath, thr, aborted, hostEnv, log>>

\* the process before its static initialisers have run
InitRoot ==
  /\ ctx = [c \in Contexts |-> NoContext]
  /\ nodePath = HostFits
  /\ hostEnv = nodePath
  /\ thr = [t \in Threads |-> IdleThread]
  /\ aborted = FALSE
  /\ log = [c \in Contexts |-> NoLog]
  /\ root \in [pc : {"start"}, env : RootEnvValues, cwd : CwdStates,
                buf : {EmptyStr}, buflen : {BufLen}, path : {EmptyStr}]

NextRoot == RootGetEnv \/ RootTest \/ RootCwd

SpecRoot == InitRoot /\ [][NextRoot]_vars

(***************************************************************************)
(* Properties                                                              *)
(***************************************************************************)
InExec(t, c) == thr[t].c = c /\ thr[t].pc \in ExecPcs

OnLive(t) == thr[t].c \in Contexts /\ ctx[thr[t].c].st = "live"

\* C1: on one context at most one thread is past the lock of wingrr_exec, it
\* owns the mutex, so two runtime invocations never overlap; a call about to
\* return made exactly one invocation and returns that invocation's status.
C1_Serialized ==
  \A c \in Contexts :
    ctx[c].st = "live" =>
      /\ Cardinality({t \in Threads : InExec(t, c)}) <= 1
      /\ \A t \in Threads :
           InExec(t, c) =>
             /\ ctx[c].mutex = t
             /\ thr[t].pc = "exec_ret" => thr[t].ninv = 1 /\ thr[t].ret = thr[t].status

\* one thread is inside the runtime while the other has called wingrr_exec on
\* the same context and waits
C1_Witness ==
  \E t, u \in Threads :
    /\ t # u
    /\ OnLive(t)
    /\ thr[u].c = thr[t].c
    /\ thr[t].pc \in InvokingPcs
    /\ thr[u].pc = "exec"

\* C2: a JavaScript / TypeScript wingrr_exec that ran with no other
\* wingrr_exec in progress finds NODE_PATH set to V and returns with NODE_PATH
\* equal to V.
C2_EnvRestored ==
  \A t \in Threads :
    ( /\ OnLive(t)
      /\ thr[t].pc = "exec_ret"
      /\ ctx[thr[t].c].type \in NodeTypes
      /\ Solo(t)
      /\ thr[t].env0 \notin {Unset, NotSolo} )
    => nodePath = thr[t].env0

\* C3: with two node contexts of different workdirs, once no call is in
\* progress NODE_PATH is what the host had set before any call.
C3_NoLeak ==
  ( /\ \A t \in Threads : thr[t].pc = "idle"
    /\ \A c \in Contexts : ctx[c].st = "live" /\ ctx[c].type \in NodeTypes
    /\ ctx["c1"].workdir # NULL
    /\ ctx["c2"].workdir # NULL
    /\ Deref(ctx["c1"].workdir) # Deref(ctx["c2"].workdir) )
  => nodePath = hostEnv

\* the engine class the claim names for each type
ExpectedRuntime(type) ==
  CASE type \in {"JAVASCRIPT", "TYPESCRIPT"} -> "node_main"
    [] type = "PYTHON" -> "PythonEngine"
    [] type = "RUBY" -> "RubyEngine"
    [] type = "LUA" -> "LuaEngine"
    [] type = "JAVA" -> "JavaEngine"
    [] type = "GO" -> "GoEngine"
    [] type = "CSHARP" -> "CSharpEngine"

\* C4: for every engine type, a wingrr_exec that passed its checks invokes
\* the one runtime of that type, once, and returns what it returned.
C4_RoutesOnce ==
  \A t \in Threads :
    (OnLive(t) /\ ctx[thr[t].c].type \in EngineTypes) =>
      /\ thr[t].pc \in InvokingPcs \cup {"ran", "exec_ret"} =>
           /\ thr[t].ninv = 1
           /\ thr[t].inv.path = ExpectedRuntime(ctx[thr[t].c].type)
      /\ thr[t].pc \in {"locked", "saved", "envset"} => thr[t].ninv = 0
      /\ thr[t].pc \in {"ran", "exec_ret"} => thr[t].ret = thr[t].status

\* a GO call about to return the status -1 of its GoEngine
C4_Witness ==
  \E t \in Threads :
    /\ OnLive(t)
    /\ thr[t].pc = "exec_ret"
    /\ ctx[thr[t].c].type = "GO"
    /\ thr[t].inv.path = "GoEngine"
    /\ thr[t].ret = -1

\* C5: no wingrr_exec gets past its asserts with program or workdir unset; the
\* call aborts holding the lock, with no runtime invoked and NODE_PATH as the
\* call found it.
C5_Fatal ==
  \A t \in Threads :
    OnLive(t) =>
      /\ thr[t].pc \in ExecPcs =>
           ctx[thr[t].c].program # NULL /\ ctx[thr[t].c].workdir # NULL
      /\ thr[t].pc = "abort_assert" =>
           /\ aborted
           /\ ctx[thr[t].c].program = NULL \/ ctx[thr[t].c].workdir = NULL
           /\ thr[t].ninv = 0
           /\ thr[t].env0 # NotSolo => nodePath = thr[t].env0

\* wingrr_exec aborted on a context whose program is set and workdir is not
C5_Witness ==
  \E t \in Threads :
    /\ OnLive(t)
    /\ thr[t].pc = "abort_assert"
    /\ ctx[thr[t].c].program # NULL
    /\ ctx[thr[t].c].workdir = NULL

\* C6: a call made on a freed context never gets past its entry: it does not
\* take the lock, read the fields or reach a runtime.
C6_FreedIsFatal ==
  \A t \in Threads :
    (thr[t].c \in Contexts /\ ctx[thr[t].c].st = "freed") =>
      thr[t].pc \notin ExecPcs

SetStep(t, op) == thr[t].pc = op /\ thr'[t].pc = "idle"

\* C7 as stated: a setter given a string whose content equals the content
\* the field designates changes no field of the context.
C7_NoFieldChange ==
  [][\A t \in Threads :
       LET c == thr[t].c IN
       /\ ( /\ SetStep(t, "set_program")
            /\ ctx[c].program # NULL /\ thr[t].arg # NULL
            /\ Deref(ctx[c].program) = Deref(thr[t].arg) ) => ctx' = ctx
       /\ ( /\ SetStep(t, "set_workdir")
            /\ ctx[c].workdir # NULL /\ thr[t].arg # NULL
            /\ Deref(ctx[c].workdir) = Deref(thr[t].arg) ) => ctx' = ctx]_vars

\* C7 amended: a setter leaves the context as one call with its pointer
\* would (the field holds that pointer, nothing else changes); given the
\* pointer the field holds it changes nothing; given an equal string at
\* another address the field designates the same content as before.
C7_SetTwice ==
  [][\A t \in Threads :
       LET c == thr[t].c IN
       /\ SetStep(t, "set_program") =>
            /\ ctx' = [ctx EXCEPT ![c].program = thr[t].arg]
            /\ ctx[c].program = thr[t].arg => ctx' = ctx
            /\ ( /\ ctx[c].program # NULL /\ thr[t].arg # NULL
                 /\ Deref(ctx[c].program) = Deref(thr[t].arg) )
               => Deref(ctx'[c].program) = Deref(ctx[c].program)
       /\ SetStep(t, "set_workdir") =>
            /\ ctx' = [ctx EXCEPT ![c].workdir = thr[t].arg]
            /\ ctx[c].workdir = thr[t].arg => ctx' = ctx
            /\ ( /\ ctx[c].workdir # NULL /\ thr[t].arg # NULL
                 /\ Deref(ctx[c].workdir) = Deref(thr[t].arg) )
               => Deref(ctx'[c].workdir) = Deref(ctx[c].workdir)]_vars

\* the first set_workdir has stored address 4; a second one, with the equal
\* string at address 5, has the lock free before it
C7_Witness ==
  \E t \in Threads :
    /\ OnLive(t)
    /\ thr[t].pc = "set_workdir"
    /\ ctx[thr[t].c].workdir = 4
    /\ thr[t].arg = 5
    /\ ctx[thr[t].c].mutex = NoThread

\* C8: whatever ran before, the runtime receives what a new context of the
\* same type, given the pointers last set, would hand over.
C8_AsFresh ==
  \A t \in Threads :
    (OnLive(t) /\ thr[t].pc \in InvokingPcs) =>
      LET c == thr[t].c IN
      thr[t].inv = WithEnv(Dispatch(log[c].type, log[c].program, log[c].workdir),
                           thr[t].inv.env)

\* a runtime is invoked on a context that has completed an execution, with
\* the third program and the third workdir
C8_Witness ==
  \E t \in Threads :
    /\ OnLive(t)
    /\ thr[t].pc \in InvokingPcs
    /\ log[thr[t].c].nexec >= 1
    /\ thr[t].inv.program = 3
    /\ ctx[thr[t].c].workdir = 6

\* C9: a live context's type is the one given to wingrr_prep.
C9_TypeFixed ==
  \A c \in Contexts : ctx[c].st = "live" => ctx[c].type = log[c].type

\* a RUBY context that has executed, with a setter call of the other thread
\* pending
C9_Witness ==
  \E c \in Contexts, t \in Threads :
    /\ ctx[c].st = "live"
    /\ ctx[c].type = "RUBY"
    /\ log[c].nexec >= 1
    /\ thr[t].c = c
    /\ thr[t].pc = "set_program"

\* C10: node_main receives "wingrr", the seven flags, for TypeScript the
\* loader pair, then the program; argc counts these and not the nullptr.
C10_Argv ==
  \A t \in Threads :
    thr[t].pc = "running" =>
      LET c == thr[t].c
          a == thr[t].inv.argv
          n == thr[t].inv.argc
          P == Deref(ctx[c].program).txt
          head == <<"wingrr", "--experimental-modules",
                    "--experimental-wasi-unstable-preview1",
                    "--no-global-search-paths", "--no-experimental-fetch",
                    "--no-deprecation", "--no-warnings", "--no-addons">>
      IN
      /\ Len(a) = n + 1
      /\ a[n + 1] = NullArg
      /\ ctx[c].type = "TYPESCRIPT" =>
           /\ n = 11
           /\ SubSeq(a, 1, n) =
                head \o <<"--require", "ts-node/register/transpile-only", P>>
      /\ ctx[c].type = "JAVASCRIPT" =>
           /\ n = 9
           /\ SubSeq(a, 1, n) = head \o <<P>>

\* node_main is running main.ts for a TypeScript context
C10_Witness ==
  \E t \in Threads :
    /\ OnLive(t)
    /\ thr[t].pc = "running"
    /\ ctx[thr[t].c].type = "TYPESCRIPT"
    /\ Deref(ctx[thr[t].c].program).txt = "main.ts"

\* C11: an external engine is constructed, once per call and not before the
\* dispatch, from the workdir pointer last set, and its execute receives the
\* program pointer last set; both are the caller's pointers themselves.
C11_AdapterArgs ==
  \A t \in Threads :
    (OnLive(t) /\ EnginePath(ctx[thr[t].c].type) \notin {"node_main", "none"}) =>
      LET c == thr[t].c IN
      /\ thr[t].pc \in {"exec", "locked"} => thr[t].inv = NoInv /\ thr[t].ninv = 0
      /\ thr[t].pc \in {"engine", "exec_ret"} =>
           /\ thr[t].ninv = 1
           /\ thr[t].inv.workdir = log[c].workdir
           /\ thr[t].inv.program = log[c].program
           /\ thr[t].inv.workdir # NULL /\ thr[t].inv.program # NULL

\* a PythonEngine built on workdir 5 runs program 2 on a context that has
\* executed before
C11_Witness ==
  \E t \in Threads :
    /\ OnLive(t)
    /\ thr[t].pc = "engine"
    /\ ctx[thr[t].c].type = "PYTHON"
    /\ log[thr[t].c].nexec >= 1
    /\ thr[t].inv.path = "PythonEngine"
    /\ thr[t].inv.workdir = 5
    /\ thr[t].inv.program = 2

\* C12: RUNTIME_PATH is WINGRR_ROOT when that is set, not empty and fits the
\* buffer; otherwise the current directory; "." when the current directory
\* cannot be read; never the empty string.
C12_FallbackChain ==
  root.pc = "done" =>
    LET usable == root.env # Unset /\ root.env.len > 0 /\ root.env.len < BufLen
        readable == root.cwd.err = "OK" /\ root.cwd.dir.len < BufLen
    IN
    /\ usable => root.path = root.env
    /\ (~usable /\ readable) => root.path = root.cwd.dir
    /\ (~usable /\ ~readable) => root.path = Dot
    /\ root.path # EmptyStr

\* C13: while a thread is inside wingrr_exec on a context, no step changes
\* the context's program or workdir, and what a runtime is entered with is
\* the program and workdir the context holds.
C13_SetWaits ==
  [][\A c \in Contexts :
       (ctx[c].st = "live" /\ \E t \in Threads : InExec(t, c)) =>
         /\ ctx'[c].program = ctx[c].program
         /\ ctx'[c].workdir = ctx[c].workdir
         /\ \A t \in Threads :
              (thr'[t].c = c /\ thr'[t].pc \in InvokingPcs) =>
                /\ thr'[t].inv.program = ctx[c].program
                /\ thr'[t].inv.workdir \in {NULL, ctx[c].workdir}]_vars

\* one thread is inside a runtime while the other has called
\* wingrr_set_program on the same context with another pointer
C13_Witness ==
  \E t, u \in Threads :
    /\ t # u
    /\ OnLive(t)
    /\ thr[t].pc \in InvokingPcs
    /\ thr[u].c = thr[t].c
    /\ thr[u].pc = "set_program"
    /\ thr[u].arg # ctx[thr[t].c].program

\* C14: no step of a wingrr_exec call, from its entry to its return, changes
\* program, workdir or type; the return leaves the context live, configured
\* and unlocked.
C14_ExecFrame ==
  [][\A t \in Threads :
       (OnLive(t) /\ thr[t].pc \in ExecPcs \cup {"exec"} /\ thr'[t] # thr[t]) =>
         LET c == thr[t].c IN
         /\ ctx'[c].program = ctx[c].program
         /\ ctx'[c].workdir = ctx[c].workdir
         /\ ctx'[c].type = ctx[c].type
         /\ thr[t].pc = "exec_ret" =>
              /\ ctx'[c].st = "live"
              /\ ctx'[c].program # NULL
              /\ ctx'[c].workdir # NULL
              /\ ctx'[c].mutex = NoThread]_vars

\* a CSHARP call about to return 1 on a context that has executed before
C14_Witness ==
  \E t \in Threads :
    /\ OnLive(t)
    /\ thr[t].pc = "exec_ret"
    /\ ctx[thr[t].c].type = "CSHARP"
    /\ log[thr[t].c].nexec >= 1
    /\ thr[t].ret = 1

\* C15: through a wingrr_exec of an external engine type NODE_PATH stays as
\* the call found it, set or unset, and the save buffer is never written.
C15_NoEnvScoping ==
  \A t \in Threads :
    ( /\ OnLive(t)
      /\ thr[t].pc \in ExecPcs
      /\ ctx[thr[t].c].type \in EngineTypes \ NodeTypes
      /\ thr[t].env0 # NotSolo )
    => /\ nodePath = thr[t].env0
       /\ thr[t].buf = Uninit
       /\ thr[t].pc \notin {"saved", "envset", "running", "ran"}

\* a LUA call about to return with NODE_PATH unset as it found it
C15_Witness ==
  \E t \in Threads :
    /\ OnLive(t)
    /\ thr[t].pc = "exec_ret"
    /\ ctx[thr[t].c].type = "LUA"
    /\ thr[t].env0 = Unset
    /\ nodePath = Unset

\* the next step of the call thread u is in, whatever the runtime returns
StepOf(u) ==
  \/ wingrr_set_program(u)
  \/ wingrr_set_workdir(u)
  \/ ExecEnter(u)
  \/ NodeGetEnv(u)
  \/ NodeSetEnv(u)
  \/ NodeMainEnter(u)
  \/ \E s \in {0, 1} : NodeMainReturn(u, s)
  \/ NodeRestoreEnv(u)
  \/ EngineExecute(u)
  \/ \E s \in {0, 1} : EngineReturn(u, s)
  \/ ExecReturn(u, 0)

\* C16: a call on a live context that no other thread is using can always
\* take its next step, whatever the threads on other contexts are doing; a
\* held mutex is held by a thread that is on that very context.
C16_Independent ==
  /\ \A u \in Threads :
       ( /\ ~aborted
         /\ OnLive(u)
         /\ thr[u].pc # "idle"
         /\ \A t \in Threads \ {u} : thr[t].c # thr[u].c )
       => ENABLED StepOf(u)
  /\ \A c \in Contexts :
       ctx[c].mutex # NoThread =>
         /\ thr[ctx[c].mutex].c = c
         /\ thr[ctx[c].mutex].pc \in ExecPcs \cup {"abort_assert"}

\* one thread is inside node_main on one context while the other has called
\* wingrr_exec on the other context and has not taken its lock yet
C16_Witness ==
  \E t, u \in Threads :
    /\ OnLive(t) /\ OnLive(u)
    /\ thr[t].c # thr[u].c
    /\ thr[t].pc = "running"
    /\ thr[u].pc = "exec"
    /\ ctx[thr[u].c].program # NULL /\ ctx[thr[u].c].workdir # NULL

\* C17: node_main is entered with NODE_PATH equal to the workdir of the
\* context it runs for.
C17_OwnPath ==
  \A t \in Threads :
    (OnLive(t) /\ thr[t].pc = "running") =>
      thr[t].inv.env = Deref(ctx[thr[t].c].workdir)

\* C18: a JAVASCRIPT or TYPESCRIPT call that starts with no other wingrr_exec
\* running and NODE_PATH unset is about to return with NODE_PATH unset.
C18_UnsetRestored ==
  \A t \in Threads :
    ( /\ OnLive(t)
      /\ thr[t].pc = "exec_ret"
      /\ ctx[thr[t].c].type \in NodeTypes
      /\ Solo(t)
      /\ thr[t].env0 = Unset )
    => nodePath = Unset

\* a call of one of the three operations that has not returned
Pending(t) ==
  /\ OnLive(t)
  /\ thr[t].pc \in ExecPcs \cup {"set_program", "set_workdir", "exec"}

\* C19 as stated: every call of wingrr_set_program, wingrr_set_workdir or
\* wingrr_exec on a live context eventually returns, and the mutex of a live
\* context with no call in progress is free.
C19_AlwaysReturns ==
  /\ \A t \in Threads : Pending(t) ~> (thr[t].pc = "idle")
  /\ [](\A c \in Contexts :
          (ctx[c].st = "live" /\ ~Busy(c)) => ctx[c].mutex = NoThread)

\* C19 amended: every such call eventually returns unless the process takes
\* the fatal abort of wingrr_exec on an unconfigured context, and the mutex
\* of a live context with no call in progress is free.
C19_ReturnsOrAborts ==
  /\ \A t \in Threads : Pending(t) ~> (thr[t].pc = "idle" \/ aborted)
  /\ [](\A c \in Contexts :
          (ctx[c].st = "live" /\ ~Busy(c)) => ctx[c].mutex = NoThread)

\* a no-op wingrr_set_program waits for the mutex that the other thread
\* holds inside a runtime
C19_Witness ==
  \E t, u \in Threads :
    /\ t # u
    /\ OnLive(t)
    /\ thr[t].pc \in InvokingPcs
    /\ ctx[thr[t].c].mutex = t
    /\ thr[u].c = thr[t].c
    /\ thr[u].pc = "set_program"
    /\ thr[u].arg = ctx[thr[t].c].program
    /\ ~ENABLED wingrr_set_program(u)

====
